---- MODULE Spec2Model ----
(***************************************************************************)
(* Sick Day Helper: the sick-day state reconciliation engine.              *)
(*                                                                         *)
(* The state document (state.json), the live on/off state of the mapped    *)
(* automations, the global "active" indicator and the calendar day are the *)
(* state.  Each engine operation of sick_day_manager.py is one action; the *)
(* record `last` keeps what the most recent operation did (what it         *)
(* commanded, what it notified, how often it saved the state document; for *)
(* a startup verification, `before` is the number of saves of the          *)
(* verification that ran immediately before it with the same failing       *)
(* queries, and -1 when there was none).                                   *)
(*                                                                         *)
(* Dates are day numbers.  The code compares zero-padded ISO-8601 strings, *)
(* whose lexicographic order is the order of the day numbers.              *)
(***************************************************************************)
EXTENDS Integers, Sequences, FiniteSets, TLC

\* ---------------------------------------------------------------- bounds
MaxDay == 1

\* ------------------------------------------------------------- constants
ENTITY_ACTIVE == "input_boolean.sick_day_active"
NOTIFICATION_EXPIRATION == "sick_day_expiration"
NOTIFICATION_CONFIRMATION == "sick_day_confirmation"

\* ------------------------------------------------------------ the world
Persons == {"P1", "P2", "P3"}
Automations == {"A", "B", "C"}
AutoStates == {"on", "off"}
Days == 0..MaxDay
\* the end dates a caller may ask for lie in the modelled calendar window
Dates == Days
NoPerson == "none"

\* mapping.json: person -> ordered list of automations (read-only for the engine)
load_mapping ==
    [p \in Persons |->
        CASE p = "P1" -> <<"A", "B">>
          [] p = "P2" -> <<"B", "C">>
          [] OTHER    -> <<>>]

\* the friendly_name attribute of a person entity
friendly_name ==
    [p \in Persons |->
        CASE p = "P1" -> "Ann"
          [] p = "P2" -> "Bob"
          [] OTHER    -> "Cy"]

\* what a caller may pass as a person reference: an id, a display name, junk
Refs == Persons \cup {"Ann", "ghost"}

\* outcome of the indicator / notification service calls of one operation
SvcOutcomes == {"ok", "indicator_raises", "notify_raises"}

Range(s) == {s[i] : i \in DOMAIN s}

Perms(S) == {s \in [1..Cardinality(S) -> S] : Range(s) = S}

VARIABLES state, auto, indicator, today, last

\* the poll loop and the process around it; the files of the store and the
\* save in progress; the result of the last load; the last end-date
\* computation; the triggers that are in the middle of a read-modify-write
VARIABLES drv, fs, wr, loaded, calc, threads, req

\* what the last handle_cancel() read and whom it resolved
VARIABLES picked

engine == <<state, auto, indicator, today, last>>

vars == <<state, auto, indicator, today, last, drv, fs, wr, loaded, calc, threads,
         req, picked>>

\* ------------------------------------------------------- config_manager
EmptyDoc == [p \in {} |-> [end_date |-> 0, disabled_automations |-> <<>>]]

\* mutant: an unknown person gets a record of defaults instead of None
get_person_state_with_default(st, p) ==
    IF p \in DOMAIN st THEN <<st[p]>>
    ELSE <<[end_date |-> 0, disabled_automations |-> <<>>]>>

\* the record of p, as a list of at most one element (empty: None)
get_person_state(st, p) == IF p \in DOMAIN st THEN <<st[p]>> ELSE <<>>

\* mutant: the saved document holds the record of p alone
set_person_state_alone(st, p, end_date, disabled_automations) ==
    [q \in {p} |-> [end_date |-> end_date, disabled_automations |-> disabled_automations]]

set_person_state(st, p, end_date, disabled_automations) ==
    [q \in DOMAIN st \cup {p} |->
        IF q = p
        THEN [end_date |-> end_date, disabled_automations |-> disabled_automations]
        ELSE st[q]]

\* mutant: the record is left in the document
remove_person_state_keeps(st, p) == st

remove_person_state(st, p) == [q \in DOMAIN st \ {p} |-> st[q]]

\* mutant: the document always counts as holding a record
has_active_sick_days_always(st) == TRUE

has_active_sick_days(st) == DOMAIN st # {}

get_all_currently_disabled(st) ==
    UNION {Range(st[p].disabled_automations) : p \in DOMAIN st}

\* ------------------------------------------------------ sick_day_manager
_resolve_person_entity(display_name) ==
    IF display_name \in DOMAIN load_mapping THEN display_name
    ELSE IF \E p \in DOMAIN load_mapping : friendly_name[p] = display_name
         THEN CHOOSE p \in DOMAIN load_mapping : friendly_name[p] = display_name
         ELSE NoPerson

\* mutant: the lookup is built from the person's own record
already_disabled_by_own_record(st, person_id) ==
    UNION {Range(st[q].disabled_automations) : q \in DOMAIN st \cap {person_id}}

\* automations listed in the records of persons other than person_id
already_disabled_by(st, person_id) ==
    UNION {Range(st[q].disabled_automations) : q \in DOMAIN st \ {person_id}}

\* mutant: an automation whose call raised is listed as disabled all the same
classify_ignores_failure(auto_id, live, already, fail) ==
    IF live[auto_id] = "on" THEN "disabled"
    ELSE IF auto_id \in already THEN "shared"
    ELSE "skipped"

\* mutant: an automation that is already off for another record is claimed too
classify_claims_shared(auto_id, live, already, fail) ==
    IF auto_id \in fail THEN "failed"
    ELSE IF live[auto_id] = "on" \/ auto_id \in already THEN "disabled"
    ELSE "skipped"

\* one pass of the loop body of activate_sick_day: what happens to auto_id
classify(auto_id, live, already, fail) ==
    IF auto_id \in fail THEN "failed"
    ELSE IF live[auto_id] = "on" THEN "disabled"
    ELSE IF auto_id \in already THEN "shared"
    ELSE "skipped"

\* mutant: the first automation whose call raises ends the loop
RECURSIVE activate_loop_aborts(_, _, _, _)
activate_loop_aborts(automations, acc, already, fail) ==
    IF automations = <<>> THEN acc
    ELSE LET auto_id == Head(automations)
             c == classify(auto_id, acc.live, already, fail)
         IN IF c = "failed" THEN [acc EXCEPT !.failed = @ \cup {auto_id}]
            ELSE activate_loop_aborts(
                    Tail(automations),
                    CASE c = "disabled" ->
                            [acc EXCEPT !.live[auto_id] = "off",
                                        !.actually_disabled = Append(@, auto_id)]
                      [] c = "shared" -> [acc EXCEPT !.shared = @ \cup {auto_id}]
                      [] OTHER -> [acc EXCEPT !.skipped = @ \cup {auto_id}],
                    already, fail)

RECURSIVE activate_loop(_, _, _, _)
activate_loop(automations, acc, already, fail) ==
    IF automations = <<>> THEN acc
    ELSE LET auto_id == Head(automations)
             c == classify(auto_id, acc.live, already, fail)
             nxt == CASE c = "disabled" ->
                            [acc EXCEPT !.live[auto_id] = "off",
                                        !.actually_disabled = Append(@, auto_id)]
                      [] c = "shared" -> [acc EXCEPT !.shared = @ \cup {auto_id}]
                      [] c = "skipped" -> [acc EXCEPT !.skipped = @ \cup {auto_id}]
                      [] OTHER -> [acc EXCEPT !.failed = @ \cup {auto_id}]
         IN activate_loop(Tail(automations), nxt, already, fail)

\* mutant: the other records' claims are not subtracted
to_reenable_all_owned(disabled_by_this, st) == disabled_by_this

\* the automations a departing record hands back: owned minus still needed
to_reenable(disabled_by_this, st) ==
    disabled_by_this \ get_all_currently_disabled(st)

\* turn_on for every automation of cmds; a call that raises changes nothing
turn_on_all(live, cmds, fail) ==
    [a \in Automations |-> IF a \in cmds \ fail THEN "on" ELSE live[a]]

\* mutant: a record expires only the day after its end date
is_expired_strict(entry, day) == entry.end_date < day

is_expired(entry, day) == entry.end_date <= day

\* ------------------------------------------------------------ bookkeeping
\* what a notification text says about the commands of the operation: how many
\* automations it counts as disabled / re-enabled, which ones it lists as failed
NoMessage == [succeeded |-> 0, failed |-> {}]

\* activate: "Disabled automations (n)" with its lines, "Failed (n)" with its lines
activated_message(actually_disabled, failed) ==
    [succeeded |-> Len(actually_disabled), failed |-> failed]

\* cancel and expiration: "{len(to_reenable)} automation(s) re-enabled", and
\* nothing about the commands that raised
reenabled_message(cmds, fail) ==
    [succeeded |-> Cardinality(cmds), failed |-> {}]

Quiet(op) ==
    [op |-> op, person |-> NoPerson, ok |-> "none", fail |-> {}, owned |-> {},
     cmd_on |-> {}, turned_off |-> {}, shared |-> {}, skipped |-> {},
     failed |-> {}, expired |-> {}, notes |-> <<>>, saves |-> 0, before |-> -1,
     msg |-> NoMessage, twice |-> {}]

Note(id, title, persons) == [id |-> id, title |-> title, persons |-> persons]

AllOn == [a \in Automations |-> "on"]

Toggles == {"submit", "cancel", "extend"}

\* the process has just been started; every toggle is off
DriverStart ==
    [pc |-> "startup", toggles |-> [t \in Toggles |-> "off"],
     dispatched |-> {}, resets |-> {}, raised |-> FALSE]

Paths == {"state.json", "state.json.tmp"}

\* the content of a path: no file, or the first `written` chunks of the JSON
\* text of `doc`, or bytes that are not text
Missing == [kind |-> "missing", doc |-> EmptyDoc, written |-> 0]

NoWrite == [pc |-> "idle", path |-> "state.json", doc |-> EmptyDoc]

NotLoaded == [raised |-> FALSE, doc |-> EmptyDoc, from |-> "none"]

NoCalc == [entry |-> "none", type |-> "none", today |-> 0, end_date |-> 0]

Triggers == {"poll", "http"}

Idle == [pc |-> "idle", op |-> "none", person |-> NoPerson, doc |-> EmptyDoc]

\* no call to the control port is in progress
\* handle_cancel() has not run
NoPick ==
    [read |-> FALSE, selected |-> "(none)", names_ok |-> TRUE, person_id |-> NoPerson,
     reset |-> FALSE]

NoRequest == [pc |-> "idle", service |-> "none", entity |-> "none",
              tries |-> 0, last_error |-> "none"]

Init ==
    /\ state = EmptyDoc
    /\ auto = AllOn
    /\ indicator = "off"
    /\ today = 0
    /\ last = Quiet("init")
    /\ drv = DriverStart
    /\ fs = [p \in Paths |-> Missing]
    /\ wr = NoWrite
    /\ loaded = NotLoaded
    /\ calc = NoCalc
    /\ threads = [t \in Triggers |-> Idle]
    /\ req = NoRequest
    /\ picked = NoPick


\* mutant: an empty mapping entry is activated like any other
no_automations_never(automations) == FALSE

\* `if not automations`: the mapping entry is absent or empty
no_automations(automations) == automations = <<>>

\* --------------------------------------------------------------- actions

\* activate_sick_day(person_display_name, end_date_str).  `fail` is the set of
\* automations for which a control call of this run raises (the state query or
\* the off-command: both end in the same except clause); `svc` says which of
\* the trailing indicator / notification calls raises, if any.
activate_sick_day(person_display_name, end_date_str, fail, svc) ==
    LET person_id == _resolve_person_entity(person_display_name)
        automations == IF person_id = NoPerson THEN <<>> ELSE load_mapping[person_id]
    IN
    /\ fail \subseteq Range(automations)
    /\ UNCHANGED today
    /\ IF person_id = NoPerson \/ no_automations(automations)
       THEN /\ UNCHANGED <<state, auto, indicator>>
            /\ last' = [Quiet("activate") EXCEPT
                          !.person = person_id,
                          !.ok = IF svc = "notify_raises" THEN "raised" ELSE "false",
                          !.notes = IF svc = "notify_raises" THEN <<>>
                                    ELSE <<Note(NOTIFICATION_CONFIRMATION,
                                                IF person_id = NoPerson THEN "Error" ELSE "Nothing mapped",
                                                <<person_display_name>>)>>]
       ELSE LET r == activate_loop(automations,
                                   [live |-> auto, actually_disabled |-> <<>>,
                                    shared |-> {}, skipped |-> {}, failed |-> {}],
                                   already_disabled_by(state, person_id), fail)
            IN /\ auto' = r.live
               /\ state' = set_person_state(state, person_id, end_date_str, r.actually_disabled)
               /\ indicator' = IF svc = "indicator_raises" THEN indicator ELSE "on"
               /\ last' = [Quiet("activate") EXCEPT
                             !.person = person_id,
                             !.ok = IF svc = "ok" THEN "true" ELSE "raised",
                             !.fail = fail,
                             !.turned_off = Range(r.actually_disabled),
                             !.shared = r.shared,
                             !.skipped = r.skipped,
                             !.failed = r.failed,
                             !.saves = 1,
                             !.msg = IF svc = "ok"
                                     THEN activated_message(r.actually_disabled, r.failed)
                                     ELSE NoMessage,
                             !.notes = IF svc = "ok"
                                       THEN <<Note(NOTIFICATION_CONFIRMATION, "Activated", <<person_id>>)>>
                                       ELSE <<>>]

\* deactivate_sick_day(person_id): cancel
deactivate_sick_day(person_id, fail, svc) ==
    /\ UNCHANGED today
    /\ IF get_person_state(state, person_id) = <<>>
       THEN /\ fail = {}
            /\ svc = "ok"
            /\ UNCHANGED <<state, auto, indicator>>
            /\ last' = [Quiet("cancel") EXCEPT !.person = person_id, !.ok = "false"]
       ELSE LET person_state == get_person_state(state, person_id)[1]
                disabled_by_this == Range(person_state.disabled_automations)
                st == remove_person_state(state, person_id)
                cmds == to_reenable(disabled_by_this, st)
                ind_raises == ~has_active_sick_days(st) /\ svc = "indicator_raises"
            IN /\ fail \subseteq cmds
               /\ state' = st
               /\ auto' = turn_on_all(auto, cmds, fail)
               /\ indicator' = IF ~has_active_sick_days(st) /\ ~ind_raises
                               THEN "off" ELSE indicator
               /\ last' = [Quiet("cancel") EXCEPT
                             !.person = person_id,
                             !.ok = IF ind_raises \/ svc = "notify_raises" THEN "raised" ELSE "true",
                             !.fail = fail,
                             !.owned = disabled_by_this,
                             !.cmd_on = cmds,
                             !.failed = fail,
                             !.saves = 1,
                             !.msg = IF ind_raises \/ svc = "notify_raises" THEN NoMessage
                                     ELSE reenabled_message(cmds, fail),
                             !.notes = IF ind_raises \/ svc = "notify_raises" THEN <<>>
                                       ELSE <<Note(NOTIFICATION_CONFIRMATION, "Cancelled", <<person_id>>)>>]

\* what one deactivate_sick_day(person_id) with every call succeeding makes of
\* a state document and the automations
deactivate_effect(doc, live, person_id) ==
    IF get_person_state(doc, person_id) = <<>> THEN [doc |-> doc, live |-> live]
    ELSE LET disabled_by_this == Range(get_person_state(doc, person_id)[1].disabled_automations)
             st == remove_person_state(doc, person_id)
         IN [doc |-> st, live |-> turn_on_all(live, to_reenable(disabled_by_this, st), {})]

\* deactivate_sick_day for the persons of `order`, one after another
RECURSIVE cancel_each(_, _, _)
cancel_each(order, doc, live) ==
    IF order = <<>> THEN [doc |-> doc, live |-> live]
    ELSE LET r == deactivate_effect(doc, live, Head(order))
         IN cancel_each(Tail(order), r.doc, r.live)

\* mutant: the extended record is rebuilt from the mapping
extended_state_from_mapping(st, person_id, new_end_date_str) ==
    set_person_state(st, person_id, new_end_date_str, load_mapping[person_id])

\* the document extend_sick_day saves: same list, new end date
extended_state(st, person_id, new_end_date_str) ==
    set_person_state(st, person_id, new_end_date_str,
                     get_person_state(st, person_id)[1].disabled_automations)

\* extend_sick_day(person_display_name, new_end_date_str)
extend_sick_day(person_display_name, new_end_date_str, svc) ==
    LET person_id == _resolve_person_entity(person_display_name)
    IN
    /\ svc # "indicator_raises"
    /\ UNCHANGED <<today, auto, indicator>>
    /\ IF person_id = NoPerson \/ get_person_state(state, person_id) = <<>>
       THEN /\ svc = "ok"
            /\ UNCHANGED state
            /\ last' = [Quiet("extend") EXCEPT !.person = person_id, !.ok = "false"]
       ELSE /\ state' = extended_state(state, person_id, new_end_date_str)
            /\ last' = [Quiet("extend") EXCEPT
                          !.person = person_id,
                          !.ok = IF svc = "ok" THEN "true" ELSE "raised",
                          !.saves = 1,
                          !.notes = IF svc = "ok"
                                    THEN <<Note(NOTIFICATION_CONFIRMATION, "Extended", <<person_id>>)>>
                                    ELSE <<>>]


\* mutant: the pass goes on when nothing has expired
returns_early_never(expired) == FALSE

\* `if not expired: return`
returns_early(expired) == expired = {}

\* the loop of check_expirations over the expired persons, in the order given:
\* delete the record, recompute what is still needed, turn the rest on
\* mutant: still_needed is taken from the document loaded at the start of the
\* pass instead of the document as it is after the deletions so far
expire_one_from_snapshot(person_id, snapshot, acc, fail) ==
    LET disabled_by_this == Range(snapshot[person_id].disabled_automations)
        cmds == to_reenable(disabled_by_this, remove_person_state(snapshot, person_id))
    IN [doc |-> remove_person_state(acc.doc, person_id),
        live |-> turn_on_all(acc.live, cmds, fail),
        cmd_on |-> acc.cmd_on \cup cmds,
        saves |-> acc.saves + 1]

\* the body of the loop for one expired person
expire_one(person_id, snapshot, acc, fail) ==
    LET disabled_by_this == Range(snapshot[person_id].disabled_automations)
        st == remove_person_state(acc.doc, person_id)
        cmds == to_reenable(disabled_by_this, st)
    IN [doc |-> st,
        live |-> turn_on_all(acc.live, cmds, fail),
        cmd_on |-> acc.cmd_on \cup cmds,
        saves |-> acc.saves + 1]

RECURSIVE expire_loop(_, _, _, _)
expire_loop(expired, snapshot, acc, fail) ==
    IF expired = <<>> THEN acc
    ELSE expire_loop(Tail(expired), snapshot,
                     expire_one(Head(expired), snapshot, acc, fail), fail)

\* check_expirations().  The code walks the expired persons in the order of the
\* keys of the document; the model allows every order.
check_expirations(order, fail, svc) ==
    LET expired == {p \in DOMAIN state : is_expired(state[p], today)}
        owned == UNION {Range(state[p].disabled_automations) : p \in expired}
    IN
    /\ order \in Perms(expired)
    /\ fail \subseteq owned
    /\ UNCHANGED today
    /\ IF returns_early(expired)
       THEN /\ svc = "ok"
            /\ UNCHANGED <<state, auto, indicator>>
            /\ last' = Quiet("check")
       ELSE LET r == expire_loop(order, state,
                                 [doc |-> state, live |-> auto, cmd_on |-> {}, saves |-> 0],
                                 fail)
                ind_raises == ~has_active_sick_days(r.doc) /\ svc = "indicator_raises"
            IN /\ state' = r.doc
               /\ auto' = r.live
               /\ indicator' = IF ~has_active_sick_days(r.doc) /\ ~ind_raises
                               THEN "off" ELSE indicator
               /\ last' = [Quiet("check") EXCEPT
                             !.ok = IF ind_raises \/ svc = "notify_raises" THEN "raised" ELSE "true",
                             !.fail = fail,
                             !.owned = owned,
                             !.expired = expired,
                             !.cmd_on = r.cmd_on,
                             !.failed = fail \cap r.cmd_on,
                             !.saves = r.saves,
                             !.twice = {a \in owned : \E p, q \in expired :
                                          /\ p # q
                                          /\ a \in Range(state[p].disabled_automations)
                                          /\ a \in Range(state[q].disabled_automations)},
                             !.msg = IF ind_raises \/ svc = "notify_raises" THEN NoMessage
                                     ELSE reenabled_message(r.cmd_on, fail),
                             !.notes = IF ind_raises \/ svc = "notify_raises" THEN <<>>
                                       ELSE <<Note(NOTIFICATION_EXPIRATION, "Expired", order)>>]

\* the poll loop's periodic check: only when some record exists
poll_expiration_check ==
    /\ has_active_sick_days(state)
    /\ \E order \in Perms({p \in DOMAIN state : is_expired(state[p], today)}),
          fail \in SUBSET Automations :
            check_expirations(order, fail, "ok")

\* the list verify_state_on_startup keeps for one record: what is still off,
\* and what could not be queried
\* mutant: the record is given every mapped automation that is off
still_disabled_claims_off(entry, live, fail) ==
    SelectSeq(<<"A", "B", "C">>, LAMBDA a : a \in fail \/ live[a] = "off")

\* the automations of a record that verify_state_on_startup keeps
still_disabled(entry, live, fail) ==
    SelectSeq(entry.disabled_automations, LAMBDA a : a \in fail \/ live[a] = "off")

\* mutant: a failed query also marks the document as changed
changed_also_on_query_failure(st, live, fail) ==
    \E p \in DOMAIN st : \E a \in Range(st[p].disabled_automations) :
        a \in fail \/ live[a] # "off"

\* the `changed` flag of verify_state_on_startup
changed(st, live, fail) ==
    \E p \in DOMAIN st :
        \/ \E a \in Range(st[p].disabled_automations) : a \notin fail /\ live[a] # "off"
        \/ Len(still_disabled(st[p], live, fail)) # Len(st[p].disabled_automations)

\* verify_state_on_startup(); `fail` is the set of automations whose query raises
verify_state_on_startup(fail) ==
    /\ fail \subseteq get_all_currently_disabled(state)
    /\ UNCHANGED <<today, auto, indicator>>
    /\ state' = IF changed(state, auto, fail)
                THEN [p \in DOMAIN state |->
                        IF Len(still_disabled(state[p], auto, fail)) # Len(state[p].disabled_automations)
                        THEN [state[p] EXCEPT !.disabled_automations = still_disabled(state[p], auto, fail)]
                        ELSE state[p]]
                ELSE state
    /\ last' = [Quiet("verify") EXCEPT
                  !.ok = "true",
                  !.fail = fail,
                  !.saves = IF changed(state, auto, fail) THEN 1 ELSE 0,
                  !.before = IF last.op = "verify" /\ last.fail = fail THEN last.saves ELSE -1]

\* a calendar day passes (date.today() moves on)
Tick ==
    /\ today < MaxDay
    /\ today' = today + 1
    /\ UNCHANGED <<state, auto, indicator>>
    /\ last' = Quiet("tick")
    /\ UNCHANGED <<drv, fs, wr, loaded, calc, threads, req, picked>>

\* somebody other than the engine changes the state of an automation
ExternalChange(auto_id, value) ==
    /\ auto[auto_id] # value
    /\ auto' = [auto EXCEPT ![auto_id] = value]
    /\ UNCHANGED <<state, indicator, today>>
    /\ last' = Quiet("external")

\* ----------------------------------------------------- the specifications

\* the engine on its own: the driver, the files and the triggers stand still
EngineOnly == UNCHANGED <<drv, fs, wr, loaded, calc, threads, req, picked>>

Activate ==
    /\ \E ref \in Refs, d \in Dates, fail \in SUBSET Automations :
          activate_sick_day(ref, d, fail, "ok")
    /\ EngineOnly

Cancel ==
    /\ \E p \in Persons, fail \in SUBSET Automations : deactivate_sick_day(p, fail, "ok")
    /\ EngineOnly

Extend ==
    /\ \E ref \in Refs, d \in Dates : extend_sick_day(ref, d, "ok")
    /\ EngineOnly

Check == poll_expiration_check /\ EngineOnly

Verify ==
    /\ \E fail \in SUBSET Automations : verify_state_on_startup(fail)
    /\ EngineOnly

External ==
    /\ \E a \in Automations, v \in AutoStates : ExternalChange(a, v)
    /\ EngineOnly

Next == Activate \/ Cancel \/ Extend \/ Check \/ Verify \/ Tick \/ External

Spec == Init /\ [][Next]_vars

\* every control call succeeds and nothing changes an automation out of band
ActivateClean ==
    /\ \E ref \in Refs, d \in Dates : activate_sick_day(ref, d, {}, "ok")
    /\ EngineOnly

CancelClean ==
    /\ \E p \in Persons : deactivate_sick_day(p, {}, "ok")
    /\ EngineOnly

ExtendClean ==
    /\ \E ref \in Refs, d \in Dates : extend_sick_day(ref, d, "ok")
    /\ EngineOnly

CheckClean ==
    /\ has_active_sick_days(state)
    /\ \E order \in Perms({p \in DOMAIN state : is_expired(state[p], today)}) :
          check_expirations(order, {}, "ok")
    /\ EngineOnly

NextClean == ActivateClean \/ CancelClean \/ ExtendClean \/ CheckClean \/ Tick

SpecClean == Init /\ [][NextClean]_vars


\* startup verification over every state the control port can report for an
\* automation: besides on and off, "unavailable" (its configuration is broken
\* or the platform is not ready)
LiveStates == AutoStates \cup {"unavailable"}

ExternalAny ==
    /\ \E a \in Automations, v \in LiveStates : ExternalChange(a, v)
    /\ EngineOnly

NextVerify == ActivateClean \/ ExternalAny \/ Verify

SpecVerify == Init /\ [][NextVerify]_vars

\* the indicator or the notification call of an operation may raise
ActivateSvc ==
    /\ \E ref \in Refs, d \in Dates, svc \in SvcOutcomes : activate_sick_day(ref, d, {}, svc)
    /\ EngineOnly

CancelSvc ==
    /\ \E p \in Persons, svc \in SvcOutcomes : deactivate_sick_day(p, {}, svc)
    /\ EngineOnly

ExtendSvc ==
    /\ \E ref \in Refs, d \in Dates, svc \in SvcOutcomes : extend_sick_day(ref, d, svc)
    /\ EngineOnly

CheckSvc ==
    /\ has_active_sick_days(state)
    /\ \E order \in Perms({p \in DOMAIN state : is_expired(state[p], today)}),
          svc \in SvcOutcomes :
            check_expirations(order, {}, svc)
    /\ EngineOnly

NextSvc == ActivateSvc \/ CancelSvc \/ ExtendSvc \/ CheckSvc \/ Tick

SpecSvc == Init /\ [][NextSvc]_vars

\* ------------------------------------------------ computing the end date

MIN_DAYS == 1
MAX_DAYS == 365

\* what the caller hands in as the duration: a number (in halves, so that
\* fractions exist), a text that is no number, or a calendar date
DurationValues ==
    [kind : {"number"}, v : (-4)..(2 * MAX_DAYS + 4)]
        \cup [kind : {"text"}, v : {0}]
        \cup [kind : {"date"}, v : Days]

\* int(float(x)): the fraction is cut off towards zero
int_of_float(halves) == IF halves >= 0 THEN halves \div 2 ELSE -((-halves) \div 2)

\* num_days = int(float(value)), 1 when that raises TypeError or ValueError
num_days_of(value) == IF value.kind = "number" THEN int_of_float(value.v) ELSE 1

Max(a, b) == IF a >= b THEN a ELSE b
Min(a, b) == IF a <= b THEN a ELSE b

\* WizardHandler._compute_end_date(duration_type, duration_value)
http_compute_end_date(duration_type, duration_value, day) ==
    IF duration_type = "days"
    THEN day + Max(MIN_DAYS, Min(num_days_of(duration_value), MAX_DAYS))
    ELSE duration_value.v

\* main._compute_end_date(): the duration type, the day count and the end
\* date are read from the input helpers
driver_compute_end_date(duration_type, duration_value, day) ==
    IF duration_type = "days"
    THEN day + num_days_of(duration_value)
    ELSE IF duration_value.kind = "date" THEN duration_value.v
         ELSE day + 1

DurationOnly ==
    UNCHANGED <<state, auto, indicator, today, last, drv, fs, wr, loaded, threads, req,
                picked>>

HttpComputeEndDate ==
    /\ \E duration_type \in {"days", "date"}, value \in DurationValues :
          /\ duration_type = "date" => value.kind = "date"
          /\ calc' = [entry |-> "http", type |-> duration_type, today |-> today,
                      end_date |-> http_compute_end_date(duration_type, value, today)]
    /\ DurationOnly

DriverComputeEndDate ==
    /\ \E duration_type \in {"days", "date"}, value \in DurationValues :
          /\ duration_type = "days" => value.kind # "date"
          /\ calc' = [entry |-> "driver", type |-> duration_type, today |-> today,
                      end_date |-> driver_compute_end_date(duration_type, value, today)]
    /\ DurationOnly

NextDuration == HttpComputeEndDate \/ DriverComputeEndDate \/ Tick

SpecDuration == Init /\ [][NextDuration]_vars

\* ------------------------------------------------------ the store's files

\* json.dump hands the text to the file in this many pieces
Chunks == 2

STATE_FILE == "state.json"

Text(doc, written) == [kind |-> "text", doc |-> doc, written |-> written]

\* bytes that cannot be decoded as text
Bytes == [kind |-> "bytes", doc |-> EmptyDoc, written |-> 0]

\* the documents the store is asked to save
SavedDocs ==
    { EmptyDoc,
      set_person_state(EmptyDoc, "P1", 0, <<"A", "B">>),
      set_person_state(set_person_state(EmptyDoc, "P1", 0, <<"A", "B">>), "P2", 1, <<"C">>) }

\* mutant: the text is written straight into the canonical file
tmp_path_in_place(path) == path

\* tmp_path = path + ".tmp"
tmp_path(path) == IF path = STATE_FILE THEN "state.json.tmp" ELSE path

\* _read_json(path): the parsed document, None, or an exception.  A missing
\* file (FileNotFoundError) and a text that is not complete JSON
\* (JSONDecodeError) give None; bytes that are no text make the read raise
\* UnicodeDecodeError, which neither except clause catches.
_read_json(content) ==
    CASE content.kind = "missing" -> [raised |-> FALSE, none |-> TRUE, doc |-> EmptyDoc]
      [] content.kind = "bytes" -> [raised |-> TRUE, none |-> TRUE, doc |-> EmptyDoc]
      [] content.written < Chunks -> [raised |-> FALSE, none |-> TRUE, doc |-> EmptyDoc]
      [] OTHER -> [raised |-> FALSE, none |-> FALSE, doc |-> content.doc]

\* load_state(): _read_json(STATE_FILE) or {}
load_state(files) ==
    LET r == _read_json(files[STATE_FILE])
    IN [raised |-> r.raised,
        doc |-> IF r.raised \/ r.none THEN EmptyDoc ELSE r.doc,
        from |-> CASE files[STATE_FILE].kind = "missing" -> "missing"
                   [] files[STATE_FILE].kind = "bytes" -> "corrupt"
                   [] files[STATE_FILE].written < Chunks -> "corrupt"
                   [] OTHER -> "document"]

FilesOnly ==
    UNCHANGED <<state, auto, indicator, today, last, drv, calc, threads, req, picked>>

\* _write_json, first step: open(tmp_path, "w") creates or empties the file
WriteOpen ==
    /\ wr.pc = "idle"
    /\ \E data \in SavedDocs :
          /\ wr' = [pc |-> "writing", path |-> STATE_FILE, doc |-> data]
          /\ fs' = [fs EXCEPT ![tmp_path(STATE_FILE)] = Text(data, 0)]
    /\ UNCHANGED loaded
    /\ FilesOnly

\* json.dump writes the next piece of the text
WriteChunk ==
    /\ wr.pc = "writing"
    /\ fs[tmp_path(wr.path)].written < Chunks
    /\ fs' = [fs EXCEPT ![tmp_path(wr.path)].written = @ + 1]
    /\ UNCHANGED <<wr, loaded>>
    /\ FilesOnly

\* os.replace(tmp_path, path), after the file has been closed
WriteReplace ==
    /\ wr.pc = "writing"
    /\ fs[tmp_path(wr.path)].written = Chunks
    /\ fs' = [q \in Paths |->
                IF q = wr.path THEN fs[tmp_path(wr.path)]
                ELSE IF q = tmp_path(wr.path) THEN Missing
                ELSE fs[q]]
    /\ wr' = NoWrite
    /\ UNCHANGED loaded
    /\ FilesOnly

\* the process dies in the middle of a save; the files stay as they are
WriteCrash ==
    /\ wr.pc = "writing"
    /\ wr' = NoWrite
    /\ UNCHANGED <<fs, loaded>>
    /\ FilesOnly

\* something other than the store damages or removes the state file
FileDamage ==
    /\ fs[STATE_FILE].kind = "text"
    /\ \E c \in {Missing, Bytes} \cup {Text(fs[STATE_FILE].doc, k) : k \in 0..(Chunks - 1)} :
          /\ c # fs[STATE_FILE]
          /\ fs' = [fs EXCEPT ![STATE_FILE] = c]
    /\ UNCHANGED <<wr, loaded>>
    /\ FilesOnly

\* an operation loads the state document
LoadState ==
    /\ loaded' = load_state(fs)
    /\ UNCHANGED <<fs, wr>>
    /\ FilesOnly

NextFile == WriteOpen \/ WriteChunk \/ WriteReplace \/ WriteCrash \/ FileDamage \/ LoadState

SpecFile == Init /\ [][NextFile]_vars

\* ------------------------------------- concurrent triggers on the store
\* The poll loop runs in the main thread and the HTTP handlers in the thread
\* that start_server creates.  set_person_state and remove_person_state are
\* each a load_state, a change of the loaded dict and a save_state; nothing
\* in the package takes a lock, so the steps of the two threads interleave.

StoreOnly ==
    UNCHANGED <<auto, indicator, today, last, drv, fs, wr, loaded, calc, req, picked>>

\* set_person_state, up to the save: load_state() and the assignment
SetLoad(t, p, end_date) ==
    /\ threads[t].pc = "idle"
    /\ threads' = [threads EXCEPT ![t] =
          [pc |-> "loaded", op |-> "set", person |-> p,
           doc |-> set_person_state(state, p, end_date, load_mapping[p])]]
    /\ UNCHANGED state
    /\ StoreOnly

\* remove_person_state, up to the save: load_state() and the pop
RemoveLoad(t, p) ==
    /\ threads[t].pc = "idle"
    /\ threads' = [threads EXCEPT ![t] =
          [pc |-> "loaded", op |-> "remove", person |-> p,
           doc |-> remove_person_state(state, p)]]
    /\ UNCHANGED state
    /\ StoreOnly

\* save_state(state) of either operation: the thread's dict replaces the file
Save(t) ==
    /\ threads[t].pc = "loaded"
    /\ state' = threads[t].doc
    /\ threads' = [threads EXCEPT ![t] = Idle]
    /\ StoreOnly

ConcSet == \E t \in Triggers, p \in Persons, d \in Dates : SetLoad(t, p, d)

ConcRemove == \E t \in Triggers, p \in Persons : RemoveLoad(t, p)

ConcSave == \E t \in Triggers : Save(t)

NextConc == ConcSet \/ ConcRemove \/ ConcSave

SpecConc == Init /\ [][NextConc]_vars

\* ------------------------------------------------------- main.py: driver
\* The driver is followed step by step: startup(), then in every tick of
\* poll_loop the three toggles in turn, the periodic expiration check and the
\* sleep.  drv.dispatched and drv.resets list, for the current tick, the
\* toggles whose engine call was made and the toggles commanded off;
\* drv.raised says that an exception ended the tick.  The automation calls
\* of the engine succeed here (their failures never leave the engine, see
\* Spec); the calls that are not guarded inside the engine may raise.

NoSelection == "(none)"

Selections == Refs \cup {NoSelection}

ReadOutcomes == {"ok", "raises"}

DriverOnly == UNCHANGED <<fs, wr, loaded, calc, threads, req, picked>>

\* mutant: nothing catches an exception that leaves a tick
after_exception_uncaught == "terminated"

\* poll_loop: `except Exception: logger.exception(...)`, then time.sleep
after_exception == "sleep"

\* an exception that leaves startup() leaves main(): the process ends
after_startup_exception == "terminated"

\* the rest of the tick is skipped
Caught(d) == [d EXCEPT !.pc = after_exception, !.raised = TRUE]

\* _reset_toggle(entity): the off-command; its failure is swallowed
reset_toggle(d, t, reset_ok) ==
    [d EXCEPT !.toggles[t] = IF reset_ok THEN "off" ELSE @,
              !.resets = @ \cup {t}]

\* _resolve_active_person_for_cancel(): the selected person if active, else
\* the only active person; names_ok says whether the name queries succeed
_resolve_active_person_for_cancel(selected, st, names_ok) ==
    LET friendly(p) == IF names_ok THEN friendly_name[p] ELSE p
        hits == {p \in DOMAIN st : friendly(p) = selected \/ p = selected}
    IN IF st = EmptyDoc THEN NoPerson
       ELSE IF hits # {} THEN CHOOSE p \in hits : TRUE
       ELSE IF Cardinality(DOMAIN st) = 1 THEN CHOOSE p \in DOMAIN st : TRUE
       ELSE NoPerson

\* mutant: startup goes from the verification straight into the poll loop
after_verify_skips_check == "submit"

\* startup(): check_expirations() is the statement after verify_state_on_startup()
after_verify == "startup_check"

\* startup(), first half: verify_state_on_startup() if a record exists
StartupVerify ==
    /\ drv.pc = "startup"
    /\ IF has_active_sick_days(state)
       THEN /\ verify_state_on_startup({})
            /\ drv' = [drv EXCEPT !.pc = after_verify]
       ELSE /\ UNCHANGED engine
            /\ drv' = [drv EXCEPT !.pc = "submit"]
    /\ DriverOnly

\* startup(), second half: the initial check_expirations(); startup has no
\* try around it
StartupCheck ==
    /\ drv.pc = "startup_check"
    /\ \E order \in Perms({p \in DOMAIN state : is_expired(state[p], today)}),
          svc \in SvcOutcomes :
            check_expirations(order, {}, svc)
    /\ drv' = [drv EXCEPT !.pc = IF last'.ok = "raised"
                                 THEN after_startup_exception ELSE "submit"]
    /\ DriverOnly

\* poll_loop, submit toggle: read it, and if it is on run handle_submit()
PollSubmit ==
    /\ drv.pc = "submit"
    /\ \E read \in ReadOutcomes :
         IF read = "raises"
         THEN UNCHANGED engine /\ drv' = Caught(drv)
         ELSE IF drv.toggles["submit"] = "off"
         THEN UNCHANGED engine /\ drv' = [drv EXCEPT !.pc = "cancel"]
         ELSE \E inputs \in ReadOutcomes, reset_ok \in BOOLEAN :
                IF inputs = "raises"
                THEN UNCHANGED engine /\ drv' = Caught(drv)
                ELSE \E person_name \in Selections :
                       IF person_name = NoSelection
                       THEN /\ UNCHANGED engine
                            /\ drv' = [reset_toggle(drv, "submit", reset_ok)
                                         EXCEPT !.pc = "cancel"]
                       ELSE \E end_date \in Dates, svc \in SvcOutcomes :
                              /\ activate_sick_day(person_name, end_date, {}, svc)
                              /\ drv' = IF last'.ok = "raised"
                                        THEN [Caught(drv) EXCEPT !.dispatched = @ \cup {"submit"}]
                                        ELSE [reset_toggle(drv, "submit", reset_ok) EXCEPT
                                                 !.pc = "cancel",
                                                 !.dispatched = @ \cup {"submit"}]
    /\ DriverOnly

\* poll_loop, cancel toggle: read it, and if it is on run handle_cancel()
PollCancel ==
    /\ drv.pc = "cancel"
    /\ \E read \in ReadOutcomes :
         IF read = "raises"
         THEN UNCHANGED engine /\ drv' = Caught(drv)
         ELSE IF drv.toggles["cancel"] = "off"
         THEN UNCHANGED engine /\ drv' = [drv EXCEPT !.pc = "extend"]
         ELSE \E inputs \in ReadOutcomes, reset_ok \in BOOLEAN :
                IF inputs = "raises"
                THEN UNCHANGED engine /\ drv' = Caught(drv)
                ELSE \E selected \in Selections, names_ok \in BOOLEAN :
                       LET person_id ==
                             _resolve_active_person_for_cancel(selected, state, names_ok)
                       IN IF person_id = NoPerson
                          THEN /\ UNCHANGED engine
                               /\ drv' = [reset_toggle(drv, "cancel", reset_ok)
                                            EXCEPT !.pc = "extend"]
                          ELSE \E svc \in SvcOutcomes :
                                 /\ deactivate_sick_day(person_id, {}, svc)
                                 /\ drv' = IF last'.ok = "raised"
                                           THEN [Caught(drv) EXCEPT !.dispatched = @ \cup {"cancel"}]
                                           ELSE [reset_toggle(drv, "cancel", reset_ok) EXCEPT
                                                    !.pc = "extend",
                                                    !.dispatched = @ \cup {"cancel"}]
    /\ DriverOnly

\* poll_loop, extend toggle: read it, and if it is on run handle_extend()
PollExtend ==
    /\ drv.pc = "extend"
    /\ \E read \in ReadOutcomes :
         IF read = "raises"
         THEN UNCHANGED engine /\ drv' = Caught(drv)
         ELSE IF drv.toggles["extend"] = "off"
         THEN UNCHANGED engine /\ drv' = [drv EXCEPT !.pc = "expire"]
         ELSE \E inputs \in ReadOutcomes, reset_ok \in BOOLEAN :
                IF inputs = "raises"
                THEN UNCHANGED engine /\ drv' = Caught(drv)
                ELSE \E person_name \in Selections :
                       IF person_name = NoSelection
                       THEN /\ UNCHANGED engine
                            /\ drv' = [reset_toggle(drv, "extend", reset_ok)
                                         EXCEPT !.pc = "expire"]
                       ELSE \E end_date \in Dates, svc \in SvcOutcomes :
                              /\ extend_sick_day(person_name, end_date, svc)
                              /\ drv' = IF last'.ok = "raised"
                                        THEN [Caught(drv) EXCEPT !.dispatched = @ \cup {"extend"}]
                                        ELSE [reset_toggle(drv, "extend", reset_ok) EXCEPT
                                                 !.pc = "expire",
                                                 !.dispatched = @ \cup {"extend"}]
    /\ DriverOnly

\* poll_loop, periodic expiration check: when the interval has elapsed and a
\* record exists
ExpireIfDue(due) ==
    /\ drv.pc = "expire"
    /\ IF due /\ has_active_sick_days(state)
       THEN /\ \E order \in Perms({p \in DOMAIN state : is_expired(state[p], today)}),
                  svc \in SvcOutcomes :
                    check_expirations(order, {}, svc)
            /\ drv' = IF last'.ok = "raised" THEN Caught(drv)
                      ELSE [drv EXCEPT !.pc = "sleep"]
       ELSE UNCHANGED engine /\ drv' = [drv EXCEPT !.pc = "sleep"]
    /\ DriverOnly

PollExpire == \E due \in BOOLEAN : ExpireIfDue(due)

\* time.sleep(POLL_INTERVAL), then the next iteration of `while True`
Sleep ==
    /\ drv.pc = "sleep"
    /\ drv' = [drv EXCEPT !.pc = "submit", !.raised = FALSE,
                          !.dispatched = {}, !.resets = {}]
    /\ UNCHANGED <<state, auto, indicator, today>>
    /\ last' = Quiet("sleep")   \* no engine operation in the new tick yet
    /\ DriverOnly

\* the user switches a toggle on in the dashboard (a tick lasts an instant
\* and the sleep POLL_INTERVAL seconds: the switch falls into the sleep)
UserToggle ==
    /\ drv.pc = "sleep"
    /\ \E t \in Toggles :
          /\ drv.toggles[t] = "off"
          /\ drv' = [drv EXCEPT !.toggles[t] = "on"]
    /\ UNCHANGED engine
    /\ DriverOnly

\* the add-on is started again: main() runs from the top, the state document
\* and the toggles are what they were
Restart ==
    /\ drv.pc \in {"sleep", "terminated"}
    /\ drv' = [DriverStart EXCEPT !.toggles = drv.toggles]
    /\ UNCHANGED engine
    /\ DriverOnly

\* the date changes while the loop sleeps
Midnight == drv.pc = "sleep" /\ Tick

NextDriver ==
    \/ StartupVerify \/ StartupCheck
    \/ PollSubmit \/ PollCancel \/ PollExtend \/ PollExpire
    \/ Sleep \/ UserToggle \/ Restart \/ Midnight

SpecDriver == Init /\ [][NextDriver]_vars

\* the process keeps running: no statement of startup or of the loop blocks
\* for ever, and expiration_check_interval elapses again and again
DriverFairness ==
    /\ WF_vars(StartupVerify) /\ WF_vars(StartupCheck)
    /\ WF_vars(PollSubmit) /\ WF_vars(PollCancel) /\ WF_vars(PollExtend)
    /\ WF_vars(PollExpire) /\ WF_vars(Sleep)
    /\ SF_vars(ExpireIfDue(TRUE))

SpecDriverFair == SpecDriver /\ DriverFairness

\* ------------------------------------------------------ ha_api._request
\* One call to the control port is followed attempt by attempt; when it has
\* returned or raised, the engine operation that made it goes on with the
\* automation of that call failed or not, every other call succeeding.

MAX_RETRIES == 3

Services == {"get_state", "turn_off", "turn_on"}

\* one attempt: a response, an HTTPError, or a URLError / OSError (timeout)
AttemptOutcomes == {"ok", "http_error", "url_error"}

RequestOnly ==
    UNCHANGED <<state, auto, indicator, today, last, drv, fs, wr, loaded, calc, threads,
                picked>>

\* mutant: the loop goes round again whatever the number of attempts
gives_up_never(tries) == FALSE

\* `for attempt in range(MAX_RETRIES)` is exhausted: `raise last_error`
gives_up(tries) == tries >= MAX_RETRIES

\* the automations an engine operation would command on for some person now
resumable ==
    UNION {to_reenable(Range(state[p].disabled_automations),
                       remove_person_state(state, p)) : p \in DOMAIN state}

\* _request(method, path, data) is entered
RequestStart ==
    /\ req.pc = "idle"
    /\ \E service \in Services, entity \in Automations :
          /\ service = "turn_on" => entity \in resumable
          /\ req' = [NoRequest EXCEPT !.pc = "trying", !.service = service,
                                      !.entity = entity]
    /\ RequestOnly

\* one pass of the loop body: urlopen with its timeout
RequestAttempt ==
    /\ req.pc = "trying"
    /\ \E outcome \in AttemptOutcomes :
          req' = IF outcome = "ok"
                 THEN [req EXCEPT !.pc = "returned", !.tries = @ + 1]
                 ELSE [req EXCEPT !.tries = @ + 1,
                                  !.last_error = outcome,
                                  !.pc = IF gives_up(req.tries + 1)
                                         THEN "raised" ELSE "sleeping"]
    /\ RequestOnly

\* time.sleep(RETRY_BACKOFF * 2 ** attempt), then the next attempt
RequestSleep ==
    /\ req.pc = "sleeping"
    /\ req' = [req EXCEPT !.pc = "trying"]
    /\ RequestOnly

\* the automations whose call raised in the operation that made req
request_failures == IF req.pc = "raised" THEN {req.entity} ELSE {}

\* the activation that queried or commanded off req.entity goes on
ActivateAfterRequest ==
    /\ req.pc \in {"returned", "raised"}
    /\ req.service \in {"get_state", "turn_off"}
    /\ \E ref \in Refs, d \in Dates :
          /\ _resolve_person_entity(ref) # NoPerson
          /\ req.entity \in Range(load_mapping[_resolve_person_entity(ref)])
          /\ activate_sick_day(ref, d, request_failures, "ok")
    /\ req' = NoRequest
    /\ UNCHANGED <<drv, fs, wr, loaded, calc, threads, picked>>

\* the cancel that commanded on req.entity goes on
CancelAfterRequest ==
    /\ req.pc \in {"returned", "raised"}
    /\ req.service = "turn_on"
    /\ \E p \in DOMAIN state :
          /\ req.entity \in to_reenable(Range(state[p].disabled_automations),
                                        remove_person_state(state, p))
          /\ deactivate_sick_day(p, request_failures, "ok")
    /\ req' = NoRequest
    /\ UNCHANGED <<drv, fs, wr, loaded, calc, threads, picked>>

NextRequest ==
    \/ RequestStart \/ RequestAttempt \/ RequestSleep
    \/ ActivateAfterRequest \/ CancelAfterRequest

SpecRequest == Init /\ [][NextRequest]_vars

\* ------------------------------------------- web_server: POST /api/activate

\* mutant: the handler never finds an existing record
already_active_never(st, person_id) == FALSE

\* `if config_manager.get_person_state(person_id)`
already_active(st, person_id) == get_person_state(st, person_id) # <<>>

\* WizardHandler._handle_activate with a person_id and a computed end date:
\* answers 400 without calling the engine, or calls activate_sick_day
_handle_activate(person_id, end_date) ==
    IF person_id \notin DOMAIN load_mapping \/ already_active(state, person_id)
    THEN /\ UNCHANGED <<state, auto, indicator, today>>
         /\ last' = [Quiet("http_activate") EXCEPT !.person = person_id, !.ok = "400"]
    ELSE activate_sick_day(person_id, end_date, {}, "ok")

HttpActivate ==
    /\ \E person_id \in Refs, d \in Dates : _handle_activate(person_id, d)
    /\ EngineOnly

NextHttp == HttpActivate \/ CancelClean \/ ExtendClean \/ CheckClean \/ Tick

SpecHttp == Init /\ [][NextHttp]_vars

\* ---------------------------------------------------- main: handle_cancel

\* handle_cancel(): resolve the person to cancel from the selection and the
\* state document, cancel that person if there is one, reset the toggle
HandleCancel ==
    /\ \E inputs \in ReadOutcomes :
         IF inputs = "raises"
         THEN /\ UNCHANGED <<state, auto, indicator, today>>
              /\ last' = [Quiet("handle_cancel") EXCEPT !.ok = "raised"]
              /\ picked' = NoPick
         ELSE \E selected \in Selections, names_ok \in BOOLEAN :
                LET person_id ==
                      _resolve_active_person_for_cancel(selected, state, names_ok)
                IN IF person_id = NoPerson
                   THEN /\ UNCHANGED <<state, auto, indicator, today>>
                        /\ last' = Quiet("handle_cancel")
                        /\ picked' = [read |-> TRUE, selected |-> selected,
                                      names_ok |-> names_ok, person_id |-> NoPerson,
                                      reset |-> TRUE]
                   ELSE \E svc \in SvcOutcomes :
                          /\ deactivate_sick_day(person_id, {}, svc)
                          /\ picked' = [read |-> TRUE, selected |-> selected,
                                        names_ok |-> names_ok, person_id |-> person_id,
                                        reset |-> last'.ok # "raised"]
    /\ UNCHANGED <<drv, fs, wr, loaded, calc, threads, req>>

NextCancel == ActivateClean \/ HandleCancel \/ Tick

SpecCancel == Init /\ [][NextCancel]_vars

\* ------------------------------------------------------------ properties

Owned(p) == IF p \in DOMAIN state THEN Range(state[p].disabled_automations) ELSE {}

\* C1: for P1 and P2, who share automation B (initially on), after any sequence
\* of activate and cancel with every call succeeding and no out-of-band change,
\* B is off if and only if P1 or P2 has a record whose disabled_automations
\* contains B.
SharedOffIffOwned ==
    auto["B"] = "off" <=> \E p \in {"P1", "P2"} : "B" \in Owned(p)

\* C2: deactivate_sick_day(P) never commands on an automation that is in the
\* disabled_automations of a record other than P's that is still in the state
\* document.
CancelSparesOtherOwners ==
    last.op = "cancel" =>
        \A a \in last.cmd_on : \A q \in DOMAIN state : a \notin Owned(q)

\* a cancel that had to leave an automation off for another record
CancelKeptOneOff ==
    /\ last.op = "cancel"
    /\ last.ok = "true"
    /\ last.owned \cap get_all_currently_disabled(state) # {}
    /\ \E a \in last.owned : a \notin last.cmd_on /\ auto[a] = "off"

\* C3: whenever the state document holds no record (every call succeeding, no
\* out-of-band change), every automation is on again: none stays suspended
\* when no one is on a sick day.
NoRecordNoSuspension ==
    DOMAIN state = {} => \A a \in Automations : auto[a] = "on"

\* C4: a cancel or an expiration does not command on an automation that is in
\* the mapping entry of another person who still has a record.
CoveredStaysSuspended ==
    last.op \in {"cancel", "check"} =>
        \A a \in last.cmd_on : \A q \in DOMAIN state : a \notin Range(load_mapping[q])

\* C5: with every call succeeding and no out-of-band change, each automation
\* is in the disabled_automations of at most one record.
SingleOwner ==
    \A p \in DOMAIN state : \A q \in DOMAIN state :
        p # q => Owned(p) \cap Owned(q) = {}

\* an activation found B already off for the other person's record
SharedSeen ==
    /\ last.op = "activate"
    /\ last.shared = {"B"}
    /\ {"P1", "P2"} \subseteq DOMAIN state
    /\ Cardinality({p \in DOMAIN state : "B" \in Owned(p)}) = 1


InitialDoc(st, live) == st = EmptyDoc /\ live = AllOn

\* C6: with mapping {P1: [A, B], P2: [B, C]} and A, B, C on, activate(P1)
\* leaves P1 owning [A, B]; then activate(P2) leaves P2 owning [C] with B
\* classified shared; then cancel(P1) leaves A and B on, C off and P2 the only
\* person with a record.
ScenarioSharedCancel ==
    [][ /\ ( /\ InitialDoc(state, auto)
             /\ last'.op = "activate" /\ last'.person = "P1" )
           => ( /\ DOMAIN state' = {"P1"}
                /\ state'["P1"].disabled_automations = <<"A", "B">>
                /\ auto' = [a \in Automations |-> IF a = "C" THEN "on" ELSE "off"] )
        /\ ( /\ DOMAIN state = {"P1"}
             /\ state["P1"].disabled_automations = <<"A", "B">>
             /\ auto = [a \in Automations |-> IF a = "C" THEN "on" ELSE "off"]
             /\ last'.op = "activate" /\ last'.person = "P2" )
           => ( /\ DOMAIN state' = {"P1", "P2"}
                /\ state'["P1"] = state["P1"]
                /\ state'["P2"].disabled_automations = <<"C">>
                /\ last'.shared = {"B"}
                /\ auto' = [a \in Automations |-> "off"] )
        /\ ( /\ DOMAIN state = {"P1", "P2"}
             /\ state["P1"].disabled_automations = <<"A", "B">>
             /\ state["P2"].disabled_automations = <<"C">>
             /\ auto = [a \in Automations |-> "off"]
             /\ last'.op = "cancel" /\ last'.person = "P1" )
           => ( /\ DOMAIN state' = {"P2"}
                /\ state'["P2"] = state["P2"]
                /\ auto' = [a \in Automations |-> IF a = "C" THEN "off" ELSE "on"] )
      ]_vars

\* the end of the scenario: P1 cancelled, A and B back on, P2 still owning C
ScenarioCancelDone ==
    /\ last.op = "cancel" /\ last.person = "P1" /\ last.ok = "true"
    /\ last.cmd_on = {"A", "B"}
    /\ DOMAIN state = {"P2"}
    /\ state["P2"].disabled_automations = <<"C">>
    /\ auto = [a \in Automations |-> IF a = "C" THEN "off" ELSE "on"]

\* C7: with P1 owning [A, B] and P2 owning [C], P1's end date reached and P2's
\* not, one check_expirations pass turns A and B on, leaves C off, removes only
\* P1's record and sends exactly one expiration notification, naming P1.
ScenarioExpiration ==
    [][ ( /\ DOMAIN state = {"P1", "P2"}
          /\ state["P1"].disabled_automations = <<"A", "B">>
          /\ state["P2"].disabled_automations = <<"C">>
          /\ auto = [a \in Automations |-> "off"]
          /\ state["P1"].end_date <= today
          /\ state["P2"].end_date > today
          /\ last'.op = "check" )
        => ( /\ DOMAIN state' = {"P2"}
             /\ state'["P2"] = state["P2"]
             /\ auto' = [a \in Automations |-> IF a = "C" THEN "off" ELSE "on"]
             /\ last'.cmd_on = {"A", "B"}
             /\ last'.notes = <<Note(NOTIFICATION_EXPIRATION, "Expired", <<"P1">>)>> )
      ]_vars

\* the expiration pass of the scenario has run
ScenarioExpirationDone ==
    /\ last.op = "check" /\ last.expired = {"P1"}
    /\ last.cmd_on = {"A", "B"}
    /\ Len(last.notes) = 1
    /\ DOMAIN state = {"P2"}
    /\ state["P2"].disabled_automations = <<"C">>
    /\ auto["C"] = "off"

\* C8: a successful extend_sick_day(P, d) changes only the end date of P's
\* record: P's disabled_automations, every other record and every automation
\* stay as they were, and nothing is commanded on or off.
ExtendOnlyEndDate ==
    [][ (last'.op = "extend" /\ last'.ok = "true")
        => ( /\ DOMAIN state' = DOMAIN state
             /\ \A q \in DOMAIN state :
                   /\ state'[q].disabled_automations = state[q].disabled_automations
                   /\ q # last'.person => state'[q] = state[q]
             /\ auto' = auto
             /\ indicator' = indicator
             /\ last'.cmd_on = {} /\ last'.turned_off = {} )
      ]_vars

\* an extend of a person who owns an automation, next to another record
ExtendedAnOwner ==
    /\ last.op = "extend" /\ last.ok = "true"
    /\ Owned(last.person) # {}
    /\ Len(state[last.person].disabled_automations) < Len(load_mapping[last.person])
    /\ Cardinality(DOMAIN state) = 2

\* C9: when no record has end_date <= today, check_expirations is a no-op: no
\* save of the state document, no command to an automation or the indicator,
\* no notification.
CheckWithoutExpiredIsNoOp ==
    [][ ( /\ last'.op = "check"
          /\ \A p \in DOMAIN state : state[p].end_date > today )
        => ( /\ state' = state
             /\ auto' = auto
             /\ indicator' = indicator
             /\ last'.saves = 0
             /\ last'.cmd_on = {} /\ last'.turned_off = {}
             /\ last'.notes = <<>> )
      ]_vars

\* an expiration pass over records none of which has expired
CheckedNothingExpired ==
    /\ last.op = "check" /\ last.expired = {}
    /\ DOMAIN state # {}
    /\ \A p \in DOMAIN state : state[p].end_date > today

\* C10: a second verify_state_on_startup right after a first one, with the
\* automations' live states and the failing queries unchanged, saves nothing
\* and leaves every record as the first run left it.
VerifyTwiceIdempotent ==
    [][ (last.op = "verify" /\ last'.op = "verify" /\ last'.fail = last.fail)
        => (last'.saves = 0 /\ state' = state)
      ]_vars

\* a second verification that follows one which had to drop a claim, while a
\* query is failing
VerifiedAgainAfterDrop ==
    /\ last.op = "verify"
    /\ last.before = 1
    /\ last.saves = 0
    /\ last.fail # {}


\* C11: activate for a person whose mapping entry is absent or empty returns
\* failure, writes no record, commands no automation and does not set the
\* active indicator.
ActivateUnmappedRejected ==
    [][ ( /\ last'.op = "activate"
          /\ \/ last'.person = NoPerson
             \/ load_mapping[last'.person] = <<>> )
        => ( /\ last'.ok = "false"
             /\ state' = state
             /\ auto' = auto
             /\ indicator' = indicator
             /\ last'.saves = 0
             /\ last'.turned_off = {} /\ last'.cmd_on = {} )
      ]_vars

\* an activation for a person with an empty mapping entry was turned down
\* while the indicator was off
UnmappedTurnedDown ==
    /\ last.op = "activate" /\ last.ok = "false"
    /\ last.person = "P3"
    /\ indicator = "off"

\* C19: deactivate_sick_day(P) for a person without a record returns failure
\* and is a no-op: the state document, the automations and the indicator are
\* unchanged, nothing is saved and no notification is sent (so a second cancel
\* in a row ends in the state of the first).
CancelInactiveIsNoOp ==
    [][ (last'.op = "cancel" /\ last'.person \notin DOMAIN state)
        => ( /\ last'.ok = "false"
             /\ state' = state
             /\ auto' = auto
             /\ indicator' = indicator
             /\ last'.saves = 0
             /\ last'.cmd_on = {} /\ last'.turned_off = {}
             /\ last'.notes = <<>> )
      ]_vars

\* a cancel of a person without a record, while somebody else has one
CancelledInactive ==
    /\ last.op = "cancel" /\ last.ok = "false"
    /\ last.person \notin DOMAIN state
    /\ DOMAIN state # {}
    /\ get_all_currently_disabled(state) # {}

\* C20: extend_sick_day for a person who cannot be resolved or who has no
\* record returns failure and changes nothing: no record is created, the
\* state document is unchanged and no automation is commanded.
ExtendInactiveRejected ==
    [][ ( /\ last'.op = "extend"
          /\ last'.person \notin DOMAIN state )
        => ( /\ last'.ok = "false"
             /\ state' = state
             /\ auto' = auto
             /\ indicator' = indicator
             /\ last'.saves = 0
             /\ last'.cmd_on = {} /\ last'.turned_off = {} )
      ]_vars

\* an extend of a mapped person without a record, while somebody else has one
ExtendedInactive ==
    /\ last.op = "extend" /\ last.ok = "false"
    /\ last.person \in {"P1", "P2"}
    /\ last.person \notin DOMAIN state
    /\ DOMAIN state # {}


\* C18: at every entry point that turns a day count into an end date, the
\* count is clamped to 1..365, so the end date is strictly after today and at
\* most 365 days ahead.
DayCountClamped ==
    (calc.entry # "none" /\ calc.type = "days") =>
        /\ calc.end_date > calc.today
        /\ calc.end_date <= calc.today + MAX_DAYS

\* the same for the HTTP handlers alone
HttpDayCountClamped ==
    (calc.entry = "http" /\ calc.type = "days") =>
        /\ calc.end_date > calc.today
        /\ calc.end_date <= calc.today + MAX_DAYS


\* C13: at every step of a save, a crash included, the canonical state file
\* holds what it held before the step or the complete new document, never a
\* part of it.
SaveIsAtomic ==
    [][ (wr' # wr \/ fs'["state.json.tmp"] # fs["state.json.tmp"])
        => \/ fs'[STATE_FILE] = fs[STATE_FILE]
           \/ fs'[STATE_FILE] = Text(wr.doc, Chunks)
      ]_vars

\* half of a new document is in the temporary file while the canonical file
\* still holds the complete previous one
SaveHalfDone ==
    /\ wr.pc = "writing"
    /\ fs["state.json.tmp"] = Text(wr.doc, 1)
    /\ fs[STATE_FILE].kind = "text"
    /\ fs[STATE_FILE].written = Chunks
    /\ fs[STATE_FILE].doc # wr.doc

\* C14: load_state on a missing or a corrupt state file returns an empty
\* document and never raises.
LoadNeverRaises ==
    loaded.from \in {"missing", "corrupt"} =>
        /\ ~loaded.raised
        /\ loaded.doc = EmptyDoc

\* C12: read-modify-write sequences on the state document are mutually
\* exclusive across triggers: while one trigger is between its load and its
\* save, the other trigger neither loads nor saves.
RmwMutuallyExclusive ==
    [][ \A t \in Triggers :
            threads[t].pc = "loaded" =>
                \A u \in Triggers \ {t} : threads'[u] = threads[u]
      ]_vars

\* C15: in every poll tick, each toggle whose engine call was dispatched has
\* been commanded off by the end of the tick, whatever the call's outcome.
DispatchedToggleIsReset ==
    drv.pc = "sleep" => drv.dispatched \subseteq drv.resets

\* C16: an exception raised inside a poll tick never ends the poll loop: the
\* tick ends in the sleep, and after the sleep the next tick begins.
TickExceptionIsContained ==
    [][ /\ (drv'.raised /\ ~drv.raised) => drv'.pc = "sleep"
        /\ (drv.pc = "sleep" /\ drv'.pc # "sleep") => drv'.pc \in {"submit", "startup"}
        /\ (drv.pc \in {"submit", "cancel", "extend", "expire"}) => drv'.pc # "terminated"
      ]_vars

\* a handler's engine call raised and the loop is at its sleep
HandlerRaisedLoopSleeps ==
    /\ drv.raised
    /\ drv.pc = "sleep"
    /\ last.ok = "raised"
    /\ drv.dispatched # {}

\* C17: no failure inside the engine terminates the process; a failure during
\* startup does not keep the poll loop from being entered.
ProcessNeverTerminates ==
    drv.pc # "terminated"

\* C21: the notification of an activate, a cancel or an expiration pass lists
\* every automation whose command failed as failed, and counts as disabled /
\* re-enabled only the automations whose command succeeded.
FailedCommandsReported ==
    [][ (last'.op \in {"activate", "cancel", "check"} /\ last'.notes # <<>>
         /\ last'.ok = "true")
        => /\ last'.failed \subseteq last'.msg.failed
           /\ last'.msg.succeeded =
                 IF last'.op = "activate" THEN Cardinality(last'.turned_off)
                 ELSE Cardinality(last'.cmd_on \ last'.failed)
      ]_vars

\* the same for activate alone
ActivateFailuresReported ==
    [][ (last'.op = "activate" /\ last'.ok = "true")
        => /\ last'.failed \subseteq last'.msg.failed
           /\ last'.msg.succeeded = Cardinality(last'.turned_off)
      ]_vars

\* C22: starting from an empty document with the indicator off, after every
\* completed operation with all control calls succeeding, the active indicator
\* is on if and only if the state document holds at least one record.
IndicatorIffRecords ==
    indicator = "on" <=> state # EmptyDoc

\* the last record has just been removed and the indicator is off again
IndicatorClearedAfterLastRecord ==
    /\ last.op \in {"cancel", "check"}
    /\ last.ok = "true"
    /\ last.saves > 0
    /\ state = EmptyDoc
    /\ indicator = "off"

\* C23: after a successful activate(P), P's record lists exactly the mapped
\* automations of P that were read as on and whose off-command did not raise,
\* in mapping order; automations that were already off and automations whose
\* query or command raised are not in the list.
ActivateRecordsExactlyDisabled ==
    [][ (last'.op = "activate" /\ last'.ok = "true")
        => /\ last'.person \in DOMAIN state'
           /\ state'[last'.person].disabled_automations =
                 SelectSeq(load_mapping[last'.person],
                           LAMBDA a : auto[a] = "on" /\ a \notin last'.fail)
           /\ \A a \in Range(load_mapping[last'.person]) :
                 (auto[a] = "off" \/ a \in last'.fail)
                    => a \notin Range(state'[last'.person].disabled_automations)
      ]_vars

\* an activation in which one automation was disabled and another one failed
ActivatedWithOneFailure ==
    /\ last.op = "activate"
    /\ last.ok = "true"
    /\ last.failed # {}
    /\ last.turned_off # {}
    /\ last.person \in DOMAIN state
    /\ Range(state[last.person].disabled_automations) = last.turned_off

\* C24: deactivate_sick_day(P) deletes P's record before it computes
\* still_needed and commands on exactly owned minus still_needed, owned being
\* P's list before the deletion and still_needed the union of the lists of the
\* remaining records; nothing outside owned is commanded on, and when P is the
\* only active person all of owned is.
CancelCommandsOwnedMinusNeeded ==
    [][ (last'.op = "cancel" /\ last'.ok = "true")
        => LET P == last'.person
               owned == Range(state[P].disabled_automations)
               still_needed == UNION {Range(state[q].disabled_automations) :
                                         q \in DOMAIN state \ {P}}
           IN /\ P \notin DOMAIN state'
              /\ last'.owned = owned
              /\ last'.cmd_on = owned \ still_needed
              /\ last'.cmd_on \subseteq owned
              /\ (DOMAIN state = {P} => last'.cmd_on = owned)
              /\ \A a \in Automations \ last'.cmd_on : auto'[a] = auto[a]
      ]_vars

\* a cancel that commanded on a part of what the person owned and left the rest
\* to another record
CancelledPartOfOwned ==
    /\ last.op = "cancel"
    /\ last.ok = "true"
    /\ last.cmd_on # {}
    /\ last.cmd_on # last.owned
    /\ last.fail = {}
    /\ \A a \in last.cmd_on : auto[a] = "on"

\* C25: after a check_expirations pass the state document holds exactly the
\* records whose end_date was later than today before the pass, each unchanged;
\* every record with end_date <= today, end_date = today included, is deleted.
CheckKeepsExactlyUnexpired ==
    [][ (last'.op = "check" /\ last'.ok \in {"true", "none"})
        => state' = [p \in {q \in DOMAIN state : state[q].end_date > today} |-> state[p]]
      ]_vars

\* a pass on day 0 deleted a record that ended on day 0 and kept a later one
CheckDeletedTodayKeptLater ==
    /\ last.op = "check"
    /\ last.ok = "true"
    /\ today = 0
    /\ last.expired # {}
    /\ state # EmptyDoc
    /\ \A p \in DOMAIN state : state[p].end_date > today

\* C26: with every call succeeding, one check_expirations pass over the set E
\* of expired persons ends in the state document and the automation states that
\* cancelling the persons of E one after another ends in, in every order, also
\* when an automation is listed in the records of two expired persons; every
\* automation listed only in records of E is on afterwards.
ExpirationEqualsCancels ==
    [][ /\ (last'.op = "cancel" /\ last'.ok = "true" /\ last'.fail = {})
           => deactivate_effect(state, auto, last'.person) = [doc |-> state', live |-> auto']
        /\ (last'.op = "check" /\ last'.ok = "true" /\ last'.fail = {})
           => /\ \A order \in Perms(last'.expired) :
                    cancel_each(order, state, auto) = [doc |-> state', live |-> auto']
              /\ \A a \in last'.owned \ get_all_currently_disabled(state') :
                    auto'[a] = "on"
      ]_vars

\* a pass over two expired persons whose records both listed one automation
ExpiredTwoSharingOne ==
    /\ last.op = "check"
    /\ last.ok = "true"
    /\ last.fail = {}
    /\ Cardinality(last.expired) = 2
    /\ last.twice # {}
    /\ \A a \in last.twice : auto[a] = "on"

\* C27: after verify_state_on_startup each record's list is its previous list
\* without exactly the automations whose live state is now on: an automation
\* that is off is kept, one whose query fails is kept, anything else about the
\* record is unchanged, and no record is deleted, an empty one included.
VerifyDropsExactlyOn ==
    [][ last'.op = "verify"
        => /\ DOMAIN state' = DOMAIN state
           /\ \A p \in DOMAIN state :
                 /\ state'[p].end_date = state[p].end_date
                 /\ state'[p].disabled_automations =
                       SelectSeq(state[p].disabled_automations,
                                 LAMBDA a : ~(a \notin last'.fail /\ auto[a] = "on"))
      ]_vars

\* the same, for automations that are either on or off when queried
VerifyDropsOnKeepsOff ==
    [][ (last'.op = "verify" /\ \A a \in Automations : auto[a] \in AutoStates)
        => /\ DOMAIN state' = DOMAIN state
           /\ \A p \in DOMAIN state :
                 /\ state'[p].end_date = state[p].end_date
                 /\ state'[p].disabled_automations =
                       SelectSeq(state[p].disabled_automations,
                                 LAMBDA a : ~(a \notin last'.fail /\ auto[a] = "on"))
      ]_vars

\* C28: a failed query or off-command for one mapped automation does not abort
\* the activation: every other mapped automation is still processed, the record
\* is written, the indicator is on and activate returns success, also when
\* every mapped automation failed or was skipped and the record's list is empty.
ActivateSurvivesFailures ==
    [][ (last'.op = "activate" /\ last'.person # NoPerson
         /\ load_mapping[last'.person] # <<>>)
        => LET P == last'.person
               mapped == Range(load_mapping[P])
           IN /\ last'.ok = "true"
              /\ P \in DOMAIN state'
              /\ indicator' = "on"
              /\ last'.turned_off \cup last'.shared \cup last'.skipped \cup last'.failed = mapped
              /\ \A a \in mapped \ last'.fail :
                    auto[a] = "on" =>
                       /\ auto'[a] = "off"
                       /\ a \in Range(state'[P].disabled_automations)
      ]_vars

\* every mapped automation failed: the record is there, empty, the indicator on
ActivatedWithEverythingFailed ==
    /\ last.op = "activate"
    /\ last.ok = "true"
    /\ last.person \in DOMAIN state
    /\ last.failed = Range(load_mapping[last.person])
    /\ state[last.person].disabled_automations = <<>>
    /\ indicator = "on"

\* C29: at process startup with at least one record, verify_state_on_startup
\* runs once and completes before the first check_expirations, and both
\* complete before the poll loop reads a toggle or dispatches an operation.
StartupOrder ==
    [][ /\ (drv.pc = "startup" /\ state # EmptyDoc /\ drv' # drv)
           => last'.op = "verify" /\ drv'.pc = "startup_check"
        /\ (drv.pc = "startup_check" /\ drv' # drv)
           => last'.op = "check" /\ drv'.pc \in {"submit", "terminated"}
        /\ (last' # last /\ last'.op = "verify") => drv.pc = "startup"
        /\ (last' # last /\ last'.op \in {"activate", "cancel", "extend"})
           => drv.pc \in {"submit", "cancel", "extend"}
        /\ (drv'.pc = "submit" /\ drv.pc # "submit")
           => \/ drv.pc = "startup_check"
              \/ drv.pc = "sleep"
              \/ drv.pc = "startup" /\ state = EmptyDoc
        /\ (drv' # drv /\ drv'.toggles # drv.toggles /\ drv'.resets # drv.resets)
           => drv.pc \in {"submit", "cancel", "extend"}
      ]_vars

\* the startup pass over an existing record is done and the first tick begins
StartupPassDone ==
    /\ drv.pc = "submit"
    /\ last.op = "check"
    /\ state # EmptyDoc

\* C30: under fair scheduling of the ticks, every record whose end_date is
\* <= today is eventually deleted by the periodic expiration check (or stops
\* being expired because it was extended), whatever the toggles are and
\* whatever happens while they are handled.
ExpiredEventuallyDeleted ==
    \A p \in Persons :
        (p \in DOMAIN state /\ is_expired(state[p], today) /\ drv.pc # "terminated")
            ~> (p \notin DOMAIN state \/ ~is_expired(state[p], today) \/ drv.pc = "terminated")

ReactivationKeepsOwnership ==
    [][ (last'.op = "activate" /\ last'.ok = "true" /\ last'.person \in DOMAIN state)
        => \A a \in Range(state[last'.person].disabled_automations) :
              auto'[a] = "off" =>
                 \E q \in DOMAIN state' : a \in Range(state'[q].disabled_automations)
      ]_vars

\* C33: when the two triggers run operations for two different persons at
\* overlapping times, no record write or deletion is lost: the save of one
\* operation leaves the record of every other person as the document had it
\* just before that save.
SaveKeepsOtherOperations ==
    [][ \A t \in Triggers :
           (threads[t].pc = "loaded" /\ threads'[t].pc = "idle")
           => \A q \in Persons \ {threads[t].person} :
                 /\ (q \in DOMAIN state') <=> (q \in DOMAIN state)
                 /\ q \in DOMAIN state => state'[q] = state[q]
      ]_vars

\* C34: the HTTP activate handler turns down a request for a person who
\* already has a record or who is not a key of the mapping, with an error and
\* without calling the engine: the state document, the automations and the
\* indicator are unchanged and nothing is notified.
HttpActivateRejects ==
    [][ (last' # last /\ last'.op \in {"activate", "http_activate"}
         /\ (last'.person \in DOMAIN state \/ last'.person \notin DOMAIN load_mapping))
        => /\ last'.op = "http_activate"
           /\ last'.ok = "400"
           /\ last'.notes = <<>>
           /\ last'.saves = 0
           /\ state' = state
           /\ auto' = auto
           /\ indicator' = indicator
      ]_vars

\* a request for a person who is on a sick day has just been turned down
HttpTurnedDownActivePerson ==
    /\ last.op = "http_activate"
    /\ last.ok = "400"
    /\ last.person \in DOMAIN state
    /\ state[last.person].disabled_automations # <<>>

\* C35: activate(P), extend(P) and cancel(P), run alone, leave the record of
\* every other person as it was: no such record appears, disappears or changes
\* its end_date or its disabled_automations.
OthersRecordsUntouched ==
    [][ last'.op \in {"activate", "extend", "cancel"}
        => \A q \in Persons \ {last'.person} :
              /\ (q \in DOMAIN state') = (q \in DOMAIN state)
              /\ q \in DOMAIN state => state'[q] = state[q]
      ]_vars

\* an extension has been stored for one person while another has a record
ExtendedBesideAnotherRecord ==
    /\ last.op = "extend"
    /\ last.ok = "true"
    /\ last.saves > 0
    /\ \E q \in DOMAIN state \ {last.person} : state[q].disabled_automations # <<>>

\* C36: the cancel toggle cancels the active person whose identifier or
\* display name equals the person selection; when the selection matches no
\* active person it cancels the only active person if exactly one record
\* exists, and otherwise cancels nobody: the state is unchanged and the toggle
\* is still reset.
CancelToggleResolves ==
    [][ (last'.op \in {"cancel", "handle_cancel"} /\ picked'.read)
        => LET matches == {p \in DOMAIN state :
                              p = picked'.selected \/ friendly_name[p] = picked'.selected}
           IN /\ matches # {}
                 => /\ last'.op = "cancel"
                    /\ last'.person \in matches
                    /\ last'.person \notin DOMAIN state'
              /\ (matches = {} /\ Cardinality(DOMAIN state) = 1)
                 => /\ last'.op = "cancel"
                    /\ last'.person \in DOMAIN state
                    /\ state' = EmptyDoc
              /\ (matches = {} /\ Cardinality(DOMAIN state) # 1)
                 => /\ last'.op = "handle_cancel"
                    /\ state' = state
                    /\ auto' = auto
                    /\ picked'.reset
      ]_vars

\* C37: verify_state_on_startup only adjusts tracked ownership: it commands no
\* automation on or off, leaves the indicator alone, sends no notification and
\* never adds a person or an automation to the state document; activate never
\* commands an automation on; cancel, extend and check_expirations never
\* command an automation off.
OperationsKeepToTheirCommands ==
    [][ /\ last'.op = "verify"
           => /\ auto' = auto
              /\ indicator' = indicator
              /\ last'.notes = <<>>
              /\ last'.cmd_on = {}
              /\ last'.turned_off = {}
              /\ DOMAIN state' = DOMAIN state
              /\ \A p \in DOMAIN state :
                    /\ Range(state'[p].disabled_automations)
                          \subseteq Range(state[p].disabled_automations)
                    /\ state'[p].end_date = state[p].end_date
        /\ last'.op = "activate"
           => /\ last'.cmd_on = {}
              /\ \A a \in Automations : auto[a] = "off" => auto'[a] = "off"
        /\ last'.op \in {"cancel", "extend", "check"}
           => /\ last'.turned_off = {}
              /\ \A a \in Automations : auto[a] = "on" => auto'[a] = "on"
      ]_vars

\* the verification has dropped an automation that was switched on out of band
\* and kept one that is still off, with the indicator on
VerifyAdjustedOwnership ==
    /\ last.op = "verify"
    /\ last.saves = 1
    /\ indicator = "on"
    /\ \E p \in DOMAIN state :
          /\ state[p].disabled_automations # <<>>
          /\ \E a \in Range(load_mapping[p]) \ Range(state[p].disabled_automations) :
                auto[a] = "on"

====
